---- MODULE Spec2Model ----
(***************************************************************************)
(* Model of src/app.py: the dataset reconstruction pipeline               *)
(* (procesar_dataset) and the country/year filter that follows it.        *)
(*                                                                         *)
(* Numbers.  The data frames hold float64 cells.  A cell is modelled as an *)
(* exact rational [num, den] in lowest terms with den > 0; the float NaN   *)
(* (a missing cell) is the cell with den = 0.  Rounding of the binary      *)
(* floating point format is not modelled: 1.02 is the rational 51/50.      *)
(* A missing cell of the object column "pais" is the label NaNPais.        *)
(*                                                                         *)
(* Library behaviour (pandas 1.x / 2.x) used by the code:                  *)
(*  - DataFrame.join is a left join on the index;                          *)
(*  - DataFrame.interpolate(method='linear') works column by column on the *)
(*    float columns only, by row position, fills only missing cells,       *)
(*    leaves the cells before the first valid one missing and repeats the  *)
(*    last valid cell after it (limit_direction defaults to 'forward');    *)
(*    the object column "pais" is returned as it is;                       *)
(*  - pd.concat of an empty list raises ValueError.                        *)
(* The input table has unique (pais, año) pairs.  The script after the    *)
(* call (option list, filter, ranking selection) is one step of the model. *)
(***************************************************************************)
EXTENDS Integers, Sequences, FiniteSets, TLC

\* ------------------------------------------------------------------ bounds
MaxRows == 3

\* --------------------------------------------------------- program constants
YearMin == 1990
AnchorYear == 2022
YearMax == 2025
GrowthNum == 51
GrowthDen == 50

\* ------------------------------------------------------------ input domains
PaisLabels == {"Argentina", "Chile"}
ObsYears == {1990, 2010, 2022, 2024, 2030}
Rangos == { <<1990, 2025>>, <<2010, 2022>> }
NaNPais == "NaN"

\* ------------------------------------------------------------------- cells
NaN == [num |-> 0, den |-> 0]
IsNaN(v) == v.den = 0

Abs(n) == IF n < 0 THEN 0 - n ELSE n

RECURSIVE GCD(_, _)
GCD(a, b) == IF b = 0 THEN a ELSE GCD(b, a % b)

Rat(n, d) ==
  LET g == GCD(Abs(n), Abs(d))
      s == IF d < 0 THEN 0 - 1 ELSE 1
  IN  [num |-> (s * n) \div g, den |-> (s * d) \div g]

Num(n) == [num |-> n, den |-> 1]

RAdd(a, b) ==
  IF IsNaN(a) \/ IsNaN(b) THEN NaN
  ELSE Rat(a.num * b.den + b.num * a.den, a.den * b.den)

RSub(a, b) ==
  IF IsNaN(a) \/ IsNaN(b) THEN NaN
  ELSE Rat(a.num * b.den - b.num * a.den, a.den * b.den)

\* the factors are cancelled crosswise first, to keep the products small
RMul(a, b) ==
  IF IsNaN(a) \/ IsNaN(b) THEN NaN
  ELSE LET x == Rat(a.num, b.den)
           y == Rat(b.num, a.den)
       IN  [num |-> x.num * y.num, den |-> x.den * y.den]

RDiv(a, b) ==
  IF IsNaN(a) \/ IsNaN(b) THEN NaN
  ELSE RMul(a, Rat(b.den, b.num))

\* a < b on valid cells: the integer parts first, then the fractional parts
RLess(a, b) ==
  LET fa == a.num \div a.den
      fb == b.num \div b.den
  IN  IF fa # fb THEN fa < fb
      ELSE (a.num - fa * a.den) * b.den < (b.num - fb * b.den) * a.den

RECURSIVE IntPow(_, _)
IntPow(b, k) == IF k = 0 THEN 1 ELSE b * IntPow(b, k - 1)

\* 1.02 ** k
GrowthPow(k) == Rat(IntPow(GrowthNum, k), IntPow(GrowthDen, k))

\* ------------------------------------------------------------------ frames
\* (graduados, mujeres_pct, gasto_pbi) of the rows of obtener_datos_stem
Observaciones ==
  { [graduados |-> Num(9200),  mujeres_pct |-> Num(30), gasto_pbi |-> Num(4)],
    [graduados |-> Num(16800), mujeres_pct |-> Num(42), gasto_pbi |-> Rat(51, 10)] }

MkRow(a, p, g, w, s) ==
  [anio |-> a, pais |-> p, graduados |-> g, mujeres_pct |-> w, gasto_pbi |-> s]

NaNRow(a) == MkRow(a, NaNPais, NaN, NaN, NaN)

InputRows ==
  { MkRow(a, p, o.graduados, o.mujeres_pct, o.gasto_pbi) :
      a \in ObsYears, p \in PaisLabels, o \in Observaciones }

UniqueKeys(t) ==
  \A i, j \in 1..Len(t) :
    (t[i].pais = t[j].pais /\ t[i].anio = t[j].anio) => i = j

ByYear(t) == \A i, j \in 1..Len(t) : i < j => t[i].anio <= t[j].anio

\* the input tables: at most MaxRows rows, (pais, anio) unique, rows listed
\* by year (the join aligns rows by year, whatever their order)
InputTables ==
  { t \in UNION { [1..n -> InputRows] : n \in 0..MaxRows } :
      UniqueKeys(t) /\ ByYear(t) }

VARIABLES df, pc, paises, idx, lista_completa, df_final,
          paises_seleccionados, rango, df_filtrado, data_ranking

vars == <<df, pc, paises, idx, lista_completa, df_final,
          paises_seleccionados, rango, df_filtrado, data_ranking>>

\* a frame given row by row, as the sequence of its rows
Rows(f) == SubSeq(f, 1, Len(f))

SetMax(S) == CHOOSE x \in S : \A y \in S : y <= x
SetMin(S) == CHOOSE x \in S : \A y \in S : x <= y

\* Series.unique(): the distinct values in order of first appearance
Unique(col) ==
  LET vals == { col[i] : i \in 1..Len(col) }
      first(v) == CHOOSE i \in 1..Len(col) :
                    col[i] = v /\ \A j \in 1..(i - 1) : col[j] # v
  IN  [k \in 1..Cardinality(vals) |->
         CHOOSE v \in vals :
           Cardinality({ u \in vals : first(u) < first(v) }) = k - 1]

PaisColumn(t) == Rows([i \in 1..Len(t) |-> t[i].pais])

\* df[df["pais"] == pais]
FilterPais(t, pais) == SelectSeq(t, LAMBDA r : r.pais = pais)

\* Join with the index built by range(1990, 2025): the last year is lost
JoinShort(sub) ==
  Rows([k \in 1..(YearMax - YearMin) |->
     LET a == YearMin + k - 1
         hit == { i \in 1..Len(sub) : sub[i].anio = a }
     IN  IF hit = {} THEN NaNRow(a) ELSE sub[CHOOSE i \in hit : TRUE]])

\* años_todos.join(sub_df): left join of the index 1990..2025 with the
\* country's rows; a year without a row gets missing cells in every column.
Join(sub) ==
  Rows([k \in 1..(YearMax - YearMin + 1) |->
     LET a == YearMin + k - 1
         hit == { i \in 1..Len(sub) : sub[i].anio = a }
     IN  IF hit = {} THEN NaNRow(a) ELSE sub[CHOOSE i \in hit : TRUE]])

\* InterpolateCell that recomputes a valid cell lying between two valid cells
InterpolateCellSmooth(col, i) ==
  LET before == { j \in 1..(i - 1) : ~IsNaN(col[j]) }
      after == { j \in (i + 1)..Len(col) : ~IsNaN(col[j]) }
  IN  IF before = {} THEN col[i]
      ELSE IF after = {} THEN (IF IsNaN(col[i]) THEN col[SetMax(before)] ELSE col[i])
      ELSE LET p == SetMax(before)
               n == SetMin(after)
               slope == RDiv(RSub(col[n], col[p]), Num(n - p))
           IN  RAdd(RMul(slope, Num(i - p)), col[p])

\* InterpolateCell with method='pad': a missing cell repeats the last valid one
InterpolateCellPad(col, i) ==
  IF ~IsNaN(col[i]) THEN col[i]
  ELSE LET before == { j \in 1..(i - 1) : ~IsNaN(col[j]) }
       IN  IF before = {} THEN NaN ELSE col[SetMax(before)]

\* InterpolateCell with limit_direction='both': the cells before the first
\* valid one repeat it
InterpolateCellBoth(col, i) ==
  IF ~IsNaN(col[i]) THEN col[i]
  ELSE LET before == { j \in 1..(i - 1) : ~IsNaN(col[j]) }
           after == { j \in (i + 1)..Len(col) : ~IsNaN(col[j]) }
       IN  IF before = {} /\ after = {} THEN NaN
           ELSE IF before = {} THEN col[SetMin(after)]
           ELSE IF after = {} THEN col[SetMax(before)]
           ELSE LET p == SetMax(before)
                    n == SetMin(after)
                    slope == RDiv(RSub(col[n], col[p]), Num(n - p))
                IN  RAdd(RMul(slope, Num(i - p)), col[p])

\* One cell of Series.interpolate(method='linear') on a float column:
\* positions are the x axis; a valid cell is kept; a missing cell before the
\* first valid one stays missing; after the last valid one it repeats it;
\* between two valid cells it is slope * (x - x0) + y0.
InterpolateCell(col, i) ==
  IF ~IsNaN(col[i]) THEN col[i]
  ELSE LET before == { j \in 1..(i - 1) : ~IsNaN(col[j]) }
           after == { j \in (i + 1)..Len(col) : ~IsNaN(col[j]) }
       IN  IF before = {} THEN NaN
           ELSE IF after = {} THEN col[SetMax(before)]
           ELSE LET p == SetMax(before)
                    n == SetMin(after)
                    slope == RDiv(RSub(col[n], col[p]), Num(n - p))
                IN  RAdd(RMul(slope, Num(i - p)), col[p])

\* DataFrame.interpolate(method='linear'): the float columns cell by cell,
\* the index and the object column pais untouched.
Interpolate(t) ==
  LET g == Rows([i \in 1..Len(t) |-> t[i].graduados])
      w == Rows([i \in 1..Len(t) |-> t[i].mujeres_pct])
      s == Rows([i \in 1..Len(t) |-> t[i].gasto_pbi])
  IN  Rows([i \in 1..Len(t) |->
         MkRow(t[i].anio, t[i].pais, InterpolateCell(g, i),
               InterpolateCell(w, i), InterpolateCell(s, i))])

\* sub_df.loc[a]
Loc(t, a) == t[CHOOSE i \in 1..Len(t) : t[i].anio = a]

\* Proyectar with simple instead of compound growth: 1 + 0.02 * (a - 2022)
ProyectarLineal(t, pais) ==
  LET ultima_grad == Loc(t, AnchorYear).graduados
  IN  Rows([i \in 1..Len(t) |->
         IF t[i].anio \in (AnchorYear + 1)..YearMax
         THEN MkRow(t[i].anio, pais,
                    RMul(ultima_grad,
                         Rat(GrowthDen + (GrowthNum - GrowthDen) * (t[i].anio - AnchorYear),
                             GrowthDen)),
                    Loc(t, AnchorYear).mujeres_pct,
                    Loc(t, AnchorYear).gasto_pbi)
         ELSE t[i]])

\* Proyectar without the two assignments that freeze the percentages
ProyectarSinCongelar(t, pais) ==
  LET ultima_grad == Loc(t, AnchorYear).graduados
  IN  Rows([i \in 1..Len(t) |->
         IF t[i].anio \in (AnchorYear + 1)..YearMax
         THEN MkRow(t[i].anio, pais,
                    RMul(ultima_grad, GrowthPow(t[i].anio - AnchorYear)),
                    t[i].mujeres_pct, t[i].gasto_pbi)
         ELSE t[i]])

\* Proyectar with a base taken from the first valid graduados of the frame
\* when the cell of 2022 is missing
ProyectarDesdePrimerDato(t, pais) ==
  LET valid == { j \in 1..Len(t) : ~IsNaN(t[j].graduados) }
      ultima_grad == IF IsNaN(Loc(t, AnchorYear).graduados) /\ valid # {}
                     THEN t[SetMin(valid)].graduados
                     ELSE Loc(t, AnchorYear).graduados
  IN  Rows([i \in 1..Len(t) |->
         IF t[i].anio \in (AnchorYear + 1)..YearMax
         THEN MkRow(t[i].anio, pais,
                    RMul(ultima_grad, GrowthPow(t[i].anio - AnchorYear)),
                    Loc(t, AnchorYear).mujeres_pct,
                    Loc(t, AnchorYear).gasto_pbi)
         ELSE t[i]])

\* the body of "for a in range(2023, 2026)" applied to the frame
Proyectar(t, pais) ==
  LET ultima_grad == Loc(t, AnchorYear).graduados
  IN  Rows([i \in 1..Len(t) |->
         IF t[i].anio \in (AnchorYear + 1)..YearMax
         THEN MkRow(t[i].anio, pais,
                    RMul(ultima_grad, GrowthPow(t[i].anio - AnchorYear)),
                    Loc(t, AnchorYear).mujeres_pct,
                    Loc(t, AnchorYear).gasto_pbi)
         ELSE t[i]])

\* one iteration of "for pais in paises": the frame appended to lista_completa
ProcesarPais(t, pais) == Proyectar(Interpolate(Join(FilterPais(t, pais))), pais)

\* pd.concat(lista_completa)
RECURSIVE Concat(_)
Concat(l) == IF l = <<>> THEN <<>> ELSE Concat(SubSeq(l, 1, Len(l) - 1)) \o l[Len(l)]

\* [p for p in df_final["pais"].unique() if pd.notna(p)]
OpcionesPaises(t) == SelectSeq(Unique(PaisColumn(t)), LAMBDA p : p # NaNPais)

SeqToSet(q) == { q[i] : i \in 1..Len(q) }

\* df_final[pais.isin(sel) & año.between(lo, hi)]
Filtro(t, sel, lo, hi) ==
  SelectSeq(t, LAMBDA r : r.pais \in sel /\ lo <= r.anio /\ r.anio <= hi)

\* sort_values("graduados"): ascending, missing cells last
CellLeq(a, b) == IF IsNaN(a) THEN IsNaN(b) ELSE (IsNaN(b) \/ ~RLess(b, a))

RECURSIVE Insert(_, _)
Insert(q, r) ==
  IF q = <<>> THEN <<r>>
  ELSE IF CellLeq(q[Len(q)].graduados, r.graduados) THEN Append(q, r)
  ELSE Append(Insert(SubSeq(q, 1, Len(q) - 1), r), q[Len(q)])

RECURSIVE SortValues(_)
SortValues(q) ==
  IF q = <<>> THEN <<>>
  ELSE Insert(SortValues(SubSeq(q, 1, Len(q) - 1)), q[Len(q)])

\* df_filtrado[df_filtrado["año"] == rango_años[1]].sort_values("graduados")
Ranking(t, hi) == SortValues(SelectSeq(t, LAMBDA r : r.anio = hi))

\* ----------------------------------------------------------------- actions
\* entry of procesar_dataset(df): paises is computed, the list is empty
Init ==
  /\ df \in InputTables
  /\ pc = "loop"
  /\ paises = Unique(PaisColumn(df))
  /\ idx = 1
  /\ lista_completa = <<>>
  /\ df_final = <<>>
  /\ paises_seleccionados = {}
  /\ rango = <<YearMin, YearMax>>
  /\ df_filtrado = <<>>
  /\ data_ranking = <<>>

\* one iteration of the loop over paises
IterarPais ==
  /\ pc = "loop"
  /\ idx <= Len(paises)
  /\ lista_completa' = Append(lista_completa, ProcesarPais(df, paises[idx]))
  /\ idx' = idx + 1
  /\ UNCHANGED <<df, pc, paises, df_final, paises_seleccionados, rango,
                 df_filtrado, data_ranking>>

\* return pd.concat(lista_completa), assigned to df_final by the caller; the
\* locals of the call go out of scope
Retornar ==
  /\ pc = "loop"
  /\ idx > Len(paises)
  /\ lista_completa # <<>>
  /\ df_final' = Concat(lista_completa)
  /\ pc' = "ui"
  /\ paises' = <<>>
  /\ idx' = 1
  /\ lista_completa' = <<>>
  /\ UNCHANGED <<df, paises_seleccionados, rango, df_filtrado, data_ranking>>

\* pd.concat([]) raises ValueError("No objects to concatenate")
RetornarVacio ==
  /\ pc = "loop"
  /\ idx > Len(paises)
  /\ lista_completa = <<>>
  /\ pc' = "raised"
  /\ UNCHANGED <<df, paises, idx, lista_completa, df_final,
                 paises_seleccionados, rango, df_filtrado, data_ranking>>

\* Filtrar that drops the rows from df_final itself
FiltrarInPlace ==
  /\ pc = "ui"
  /\ pc' = "fin"
  /\ \E sel \in SUBSET SeqToSet(OpcionesPaises(df_final)), r \in Rangos :
       LET filtrado == Filtro(df_final, sel, r[1], r[2])
       IN  /\ paises_seleccionados' = sel
           /\ rango' = r
           /\ df_final' = filtrado
           /\ df_filtrado' = filtrado
           /\ data_ranking' = Ranking(filtrado, r[2])
  /\ UNCHANGED <<df, paises, idx, lista_completa>>

\* the rest of the script run: the sidebar selection, the filter and the
\* ranking selection
Filtrar ==
  /\ pc = "ui"
  /\ pc' = "fin"
  /\ \E sel \in SUBSET SeqToSet(OpcionesPaises(df_final)), r \in Rangos :
       LET filtrado == Filtro(df_final, sel, r[1], r[2])
       IN  /\ paises_seleccionados' = sel
           /\ rango' = r
           /\ df_filtrado' = filtrado
           /\ data_ranking' = Ranking(filtrado, r[2])
  /\ UNCHANGED <<df, paises, idx, lista_completa, df_final>>

Next == IterarPais \/ Retornar \/ RetornarVacio \/ Filtrar

Spec == Init /\ [][Next]_vars

\* ------------------------------------------------------------ properties
\* the countries of the input, in the order the loop visits them
Countries == Unique(PaisColumn(df))

NYears == YearMax - YearMin + 1

\* the rows of df_final that come from the k-th frame of lista_completa
Block(k) == SubSeq(df_final, (k - 1) * NYears + 1, k * NYears)

\* the input rows of country c
ObsOf(c) == { i \in 1..Len(df) : df[i].pais = c }
ObsYearsOf(c) == { df[i].anio : i \in ObsOf(c) }
ObsAt(c, y) == df[CHOOSE i \in ObsOf(c) : df[i].anio = y]

SameValues(r, o) ==
  /\ r.graduados = o.graduados
  /\ r.mujeres_pct = o.mujeres_pct
  /\ r.gasto_pbi = o.gasto_pbi

AllMissing(r) == IsNaN(r.graduados) /\ IsNaN(r.mujeres_pct) /\ IsNaN(r.gasto_pbi)

\* procesar_dataset has just returned df_final
Returned == pc = "ui"

YearsExactly(t) ==
  /\ Len(t) = NYears
  /\ \A i \in 1..Len(t) : t[i].anio \in YearMin..YearMax
  /\ \A y \in YearMin..YearMax : Cardinality({ i \in 1..Len(t) : t[i].anio = y }) = 1

\* C1 (contiguity): every frame the loop appends for a country, and every
\* country's block of the returned table, has as its years exactly
\* 1990, 1991, ..., 2025, each exactly once and nothing else, whatever years
\* the country was observed in.
C1_Contiguity ==
  /\ \A k \in 1..Len(lista_completa) : YearsExactly(lista_completa[k])
  /\ Returned =>
       /\ Len(df_final) = NYears * Len(Countries)
       /\ \A k \in 1..Len(Countries) : YearsExactly(Block(k))

C1_Witness ==
  /\ Returned
  /\ Len(Countries) = 2
  /\ \E c \in SeqToSet(Countries) : ObsYearsOf(c) = {2010, 2030}
  /\ \E c \in SeqToSet(Countries) : ObsYearsOf(c) = {2024}

HasRecord(o) ==
  \E j \in 1..Len(df_final) :
    /\ df_final[j].pais = o.pais
    /\ df_final[j].anio = o.anio
    /\ SameValues(df_final[j], o)

\* C2 as stated (exactness at observed points): every observation of the
\* input has a record for its country and year in the output with the
\* observed graduados, mujeres_pct and gasto_pbi.
C2_Original == Returned => \A i \in 1..Len(df) : HasRecord(df[i])

\* C2 amended: every observation dated 1990..2022 has a record for its
\* country and year in the output with exactly the observed graduados,
\* mujeres_pct and gasto_pbi; and it is the record of that year in the
\* country's block.
C2_ExactnessHistorical ==
  Returned =>
    \A k \in 1..Len(Countries) : \A i \in ObsOf(Countries[k]) :
      df[i].anio \in YearMin..AnchorYear =>
        LET b == Block(k)
        IN  /\ HasRecord(df[i])
            /\ Loc(b, df[i].anio) = df[i]

C2_Witness ==
  /\ Returned
  /\ \E c \in SeqToSet(Countries) :
       /\ ObsYearsOf(c) = {1990, 2010, 2022}
       /\ ObsAt(c, 2010).graduados # ObsAt(c, 1990).graduados
       /\ ObsAt(c, 2022).graduados = ObsAt(c, 1990).graduados

\* C3 as stated (country label on every row): every row of the returned
\* table carries the label of the country it was reconstructed for; no row
\* has a missing pais.
C3_LabelEveryRow ==
  Returned =>
    \A k \in 1..Len(Countries) : \A i \in 1..NYears :
      Block(k)[i].pais = Countries[k]

\* the two observations at y1 < y2 of c bracket a gap of the history
Bracket(c, y1, y2) ==
  /\ y1 \in ObsYearsOf(c) /\ y2 \in ObsYearsOf(c)
  /\ YearMin <= y1 /\ y1 < y2 /\ y2 <= AnchorYear
  /\ \A y \in ObsYearsOf(c) : ~(y1 < y /\ y < y2)

\* v1 + (v2 - v1) * (y - y1) / (y2 - y1)
Linear(v1, v2, y1, y2, y) ==
  RAdd(v1, RDiv(RMul(RSub(v2, v1), Num(y - y1)), Num(y2 - y1)))

\* C4 (linear interpolation): between two observations at y1 < y2 within
\* 1990..2022 with none in between, the record of every year y1 < y < y2 has
\* graduados, mujeres_pct and gasto_pbi on the straight line through the two
\* observed values.
C4_LinearInterpolation ==
  Returned =>
    \A k \in 1..Len(Countries) : \A y1, y2 \in ObsYearsOf(Countries[k]) :
      Bracket(Countries[k], y1, y2) =>
        LET o1 == ObsAt(Countries[k], y1)
            o2 == ObsAt(Countries[k], y2)
            b == Block(k)
        IN  \A y \in (y1 + 1)..(y2 - 1) :
              LET r == Loc(b, y)
              IN  /\ r.graduados = Linear(o1.graduados, o2.graduados, y1, y2, y)
                  /\ r.mujeres_pct = Linear(o1.mujeres_pct, o2.mujeres_pct, y1, y2, y)
                  /\ r.gasto_pbi = Linear(o1.gasto_pbi, o2.gasto_pbi, y1, y2, y)

C4_Witness ==
  /\ Returned
  /\ \E c \in SeqToSet(Countries) :
       /\ Bracket(c, 1990, 2010) /\ Bracket(c, 2010, 2022)
       /\ ObsAt(c, 1990).graduados # ObsAt(c, 2010).graduados
       /\ ObsAt(c, 2010).gasto_pbi # ObsAt(c, 2022).gasto_pbi

TailYears == (AnchorYear + 1)..YearMax

\* C5 (compound-growth tail): for every country and every year y in
\* 2023..2025 graduados(y) is graduados(2022) * 1.02^(y - 2022), with
\* graduados(2022) the country's own output record for 2022; and so for two
\* projected years y1 < y2, graduados(y2) = graduados(y1) * 1.02^(y2 - y1).
C5_CompoundGrowth ==
  Returned =>
    \A k \in 1..Len(Countries) :
      LET b == Block(k)
          g(y) == Loc(b, y).graduados
      IN  /\ \A y \in TailYears :
               g(y) = RMul(g(AnchorYear), GrowthPow(y - AnchorYear))
          /\ \A y1, y2 \in TailYears :
               y1 < y2 => g(y2) = RMul(g(y1), GrowthPow(y2 - y1))

C5_Witness ==
  /\ Returned
  /\ \E k \in 1..Len(Countries) :
       /\ ObsYearsOf(Countries[k]) = {1990, 2024}
       /\ ObsAt(Countries[k], 1990).graduados # ObsAt(Countries[k], 2024).graduados
       /\ ~IsNaN(Loc(Block(k), AnchorYear).graduados)
       /\ Loc(Block(k), YearMax).graduados # Loc(Block(k), AnchorYear).graduados

\* C6 (frozen percentages): for every country and every year y in
\* 2023..2025, mujeres_pct(y) and gasto_pbi(y) are the country's output
\* values for 2022.
C6_FrozenPercentages ==
  Returned =>
    \A k \in 1..Len(Countries) :
      LET b == Block(k)
      IN  \A y \in TailYears :
            /\ Loc(b, y).mujeres_pct = Loc(b, AnchorYear).mujeres_pct
            /\ Loc(b, y).gasto_pbi = Loc(b, AnchorYear).gasto_pbi

C6_Witness ==
  /\ Returned
  /\ \E k \in 1..Len(Countries) :
       /\ ObsYearsOf(Countries[k]) = {2010, 2022, 2024}
       /\ ObsAt(Countries[k], 2024).mujeres_pct # ObsAt(Countries[k], 2022).mujeres_pct
       /\ ~IsNaN(Loc(Block(k), YearMax).gasto_pbi)

\* C7 as stated (empty input is not fatal): with an input table of no rows
\* procesar_dataset raises nothing.
C7_EmptyInputNotFatal == df = <<>> => pc # "raised"

\* C8 (immutability): no step changes the input table df, and once df_final
\* is returned the filter and the ranking selection leave it as it is.
C8_Immutability ==
  [][df' = df /\ (Returned => df_final' = df_final)]_vars

C8_Witness ==
  /\ pc = "fin"
  /\ paises_seleccionados # {}
  /\ df_filtrado # <<>>
  /\ Len(df_filtrado) < Len(df_final)
  /\ data_ranking # <<>>
  /\ df # <<>>

FirstObs(c) == SetMin(ObsYearsOf(c))
LastObs(c) == SetMax(ObsYearsOf(c))

FlatAfterLast(k) ==
  LET c == Countries[k]
      b == Block(k)
  IN  \A y \in YearMin..AnchorYear :
        y > LastObs(c) => SameValues(Loc(b, y), ObsAt(c, LastObs(c)))

\* C9 as stated (flat fill of unbracketed ends): the records of the years
\* before a first observed year f > 1990 hold the values observed at f, and
\* the records of the years l < y <= 2022 after a last observed year l < 2022
\* hold the values observed at l.
C9_Original ==
  Returned =>
    \A k \in 1..Len(Countries) :
      LET c == Countries[k]
          b == Block(k)
      IN  /\ FirstObs(c) > YearMin =>
               \A y \in YearMin..YearMax :
                 y < FirstObs(c) => SameValues(Loc(b, y), ObsAt(c, FirstObs(c)))
          /\ LastObs(c) < AnchorYear => FlatAfterLast(k)

\* C9 amended: the records of the years before a first observed year
\* f > 1990 have graduados, mujeres_pct and gasto_pbi missing; the records of
\* the years l < y <= 2022 after a last observed year l with
\* 1990 <= l < 2022 hold the values observed at l.
C9_FlatFillForward ==
  Returned =>
    \A k \in 1..Len(Countries) :
      LET c == Countries[k]
          b == Block(k)
      IN  /\ FirstObs(c) > YearMin =>
               \A y \in YearMin..YearMax :
                 y < FirstObs(c) => AllMissing(Loc(b, y))
          /\ (YearMin <= LastObs(c) /\ LastObs(c) < AnchorYear) => FlatAfterLast(k)

C9_Witness ==
  /\ Returned
  /\ \E k \in 1..Len(Countries) :
       /\ ObsYearsOf(Countries[k]) = {2010}
       /\ AllMissing(Loc(Block(k), 2009))
       /\ ~AllMissing(Loc(Block(k), AnchorYear))

NoBase(c) == \A y \in ObsYearsOf(c) : y > AnchorYear

\* C10 (no fabricated projection base): with a country all of whose
\* observations are later than 2022 in the input, procesar_dataset does not
\* raise, and that country's graduados for 2022 and for 2023..2025 are
\* missing, not numbers.
C10_NoFabricatedBase ==
  /\ (\E c \in SeqToSet(Countries) : NoBase(c)) => pc # "raised"
  /\ Returned =>
       \A k \in 1..Len(Countries) :
         NoBase(Countries[k]) =>
           LET b == Block(k)
           IN  \A y \in AnchorYear..YearMax : IsNaN(Loc(b, y).graduados)

C10_Witness ==
  /\ Returned
  /\ \E k \in 1..Len(Countries) :
       /\ ObsYearsOf(Countries[k]) = {2024, 2030}
       /\ Loc(Block(k), 2024).pais = Countries[k]

====
